---- MODULE Spec2Model ----
(***************************************************************************)
(* Model of dgraph/cmd/migrate/topo_sort.go: the depth-first topological   *)
(* sort of the tables of a schema along their foreign key references.      *)
(*                                                                         *)
(* The recursion of visit is an explicit stack of frames (table, the       *)
(* references the range loop of that frame has not yet produced).  Go      *)
(* iterates a map in an unspecified order, so each range loop picks any    *)
(* remaining key.                                                          *)
(***************************************************************************)
EXTENDS Naturals, Sequences, FiniteSets, TLC

\* ------------------------------------------------------------------ bounds
\* The table names the graphs are drawn from.
NameSeq == <<"a", "b", "c", "d">>
Names == {NameSeq[i] : i \in 1..Len(NameSeq)}
\* The largest number of reference edges of a graph.
MaxEdges == 4
\* The largest number of calls of topoSortTables made on one graph.
MaxCalls == 2

\* ------------------------------------------------------- types of the code
\* NodeColor (topo_sort.go:21-27)
WHITE == 0
GREY == 1
BLACK == 2

\* A []string: nil, or a (possibly empty) list of names.
NilSlice == [isNil |-> TRUE, elems |-> <<>>]
\* make([]string, 0)
MakeCollector == [isNil |-> FALSE, elems |-> <<>>]
\* Variant: the name is put in front of the collector.
CollectFront(c, t) == [isNil |-> FALSE, elems |-> <<t>> \o c.elems]
\* append(collector, curTable); append on a nil slice allocates.
Collect(c, t) == [isNil |-> FALSE, elems |-> Append(c.elems, t)]

\* The nil error.
NoErr == [kind |-> "nil", table |-> ""]

VARIABLES
    tables,     \* the graph: table name -> set of referenced names
    nodeColor,  \* map[string]NodeColor of the current run
    collector,  \* the collector threaded through visit
    stack,      \* active frames of visit, outermost first
    rootsTodo,  \* tables the loop of topoSortTables has not yet produced
    err,        \* the error raised in the current run, NoErr if none
    curTable,   \* argument of the most recent call of visit
    visits,     \* number of calls of visit in the current run
    pc,         \* "idle", "run", "unwind", "done", "panic"
    ret,        \* what the current call of topoSortTables returned
    history     \* outcomes of the completed calls, oldest first

vars == <<tables, nodeColor, collector, stack, rootsTodo, err, curTable,
          visits, pc, ret, history>>

\* ---------------------------------------------------------------- graphs
TableSets == {{NameSeq[i] : i \in 1..k} : k \in 0..Len(NameSeq)}

EdgesOf(g) == {e \in (DOMAIN g) \X Names : e[2] \in g[e[1]]}

Graphs ==
    UNION {{[t \in T |-> {e[2] : e \in {x \in E : x[1] = t}}] :
              E \in {F \in SUBSET (T \X Names) : Cardinality(F) <= MaxEdges}} :
           T \in TableSets}

\* nodeColor[t]: a missing key reads as the zero value, WHITE.
ColorOf(nc, t) == IF t \in DOMAIN nc THEN nc[t] ELSE WHITE
SetColor(nc, t, c) == (t :> c) @@ nc

\* Variant: the colors of the previous run are kept.
InitColorsStale(tbls) == [t \in DOMAIN tbls |-> ColorOf(nodeColor, t)]
\* for table := range tables { nodeColor[table] = WHITE }
InitColors(tbls) == [t \in DOMAIN tbls |-> WHITE]

\* Variant: the table is marked BLACK as soon as it is discovered.
MarkInProgressAsDone(nc, t) == SetColor(nc, t, BLACK)
\* nodeColor[curTable] = GREY
MarkInProgress(nc, t) == SetColor(nc, t, GREY)

\* Variant: the table is set back to WHITE when its children are done.
MarkDoneAsWhite(nc, t) == SetColor(nc, t, WHITE)
\* Variant: the table is left GREY when its children are done.
MarkDoneMissing(nc, t) == nc
\* nodeColor[curTable] = BLACK
MarkDone(nc, t) == SetColor(nc, t, BLACK)

\* Variant: the error names the table the traversal started from.
CycleErrorRoot(t) == [kind |-> "cycle", table |-> stack[1].table]
\* fmt.Errorf("found reference loops while visiting table %s", curTable)
CycleError(t) == [kind |-> "cycle", table |-> t]

NoRet == [seq |-> NilSlice, err |-> NoErr]

Top == stack[Len(stack)]
Pop(s) == SubSeq(s, 1, Len(s) - 1)

\* ------------------------------------------------------------------ Init
Init ==
    /\ tables \in Graphs
    /\ nodeColor = <<>>
    /\ collector = NilSlice
    /\ stack = <<>>
    /\ rootsTodo = {}
    /\ err = NoErr
    /\ curTable = ""
    /\ visits = 0
    /\ pc = "idle"
    /\ ret = NoRet
    /\ history = <<>>

\* --------------------------------------------------------------- actions
\* topoSortTables, lines 64-70: fresh colors, empty collector.
Call ==
    /\ pc \in {"idle", "done"}
    /\ Len(history) < MaxCalls
    /\ nodeColor' = InitColors(tables)
    /\ collector' = MakeCollector
    /\ stack' = <<>>
    /\ rootsTodo' = DOMAIN tables
    /\ err' = NoErr
    /\ curTable' = ""
    /\ visits' = 0
    /\ pc' = "run"
    /\ ret' = NoRet
    /\ UNCHANGED <<tables, history>>

\* visit, case WHITE (lines 35-38): mark GREY and start ranging over the
\* references.  tables[t] of a name that is no key is a nil *TableInfo, and
\* reading its field referencedTables panics.
visitWhite(t, callerStack) ==
    /\ ColorOf(nodeColor, t) = WHITE
    /\ nodeColor' = MarkInProgress(nodeColor, t)
    /\ IF t \in DOMAIN tables
         THEN /\ stack' = Append(callerStack, [table |-> t, todo |-> tables[t]])
              /\ pc' = "run"
         ELSE /\ stack' = Append(callerStack, [table |-> t, todo |-> {}])
              /\ pc' = "panic"
    /\ UNCHANGED <<collector, err>>

\* Variant: a GREY table is ignored like a BLACK one.
visitGreyIgnored(t, callerStack) ==
    /\ ColorOf(nodeColor, t) = GREY
    /\ stack' = callerStack
    /\ UNCHANGED <<nodeColor, collector, err, pc>>

\* visit, case GREY (lines 49-51): return nil and the loop error.
visitGrey(t, callerStack) ==
    /\ ColorOf(nodeColor, t) = GREY
    /\ err' = CycleError(t)
    /\ collector' = NilSlice
    /\ stack' = callerStack
    /\ pc' = "unwind"
    /\ UNCHANGED nodeColor

\* Variant: the BLACK case falls through to the append of the WHITE case.
visitBlackCollect(t, callerStack) ==
    /\ ColorOf(nodeColor, t) = BLACK
    /\ stack' = callerStack
    /\ collector' = Collect(collector, t)
    /\ UNCHANGED <<nodeColor, err, pc>>

\* visit, case BLACK (lines 52-57): return the collector as it is.
visitBlack(t, callerStack) ==
    /\ ColorOf(nodeColor, t) = BLACK
    /\ stack' = callerStack
    /\ UNCHANGED <<nodeColor, collector, err, pc>>

\* visit(tables, nodeColor, t, collector), called with callerStack active.
visit(t, callerStack) ==
    /\ curTable' = t
    /\ visits' = visits + 1
    /\ \/ visitWhite(t, callerStack)
       \/ visitGrey(t, callerStack)
       \/ visitBlack(t, callerStack)

\* Variant: the loop skips a table that is BLACK without calling visit.
VisitRootSkipDone ==
    /\ pc = "run"
    /\ stack = <<>>
    /\ \E table \in rootsTodo :
         /\ rootsTodo' = rootsTodo \ {table}
         /\ IF ColorOf(nodeColor, table) = BLACK
              THEN UNCHANGED <<nodeColor, collector, stack, err, curTable,
                               visits, pc>>
              ELSE visit(table, stack)
    /\ UNCHANGED <<tables, ret, history>>

\* topoSortTables, lines 71-72: the loop produces a table and visits it.
VisitRoot ==
    /\ pc = "run"
    /\ stack = <<>>
    /\ \E table \in rootsTodo :
         /\ rootsTodo' = rootsTodo \ {table}
         /\ visit(table, stack)
    /\ UNCHANGED <<tables, ret, history>>

\* Variant: the recursive call passes curTable instead of childTable.
VisitChildSelf ==
    /\ pc = "run"
    /\ stack # <<>>
    /\ \E childTable \in Top.todo :
         visit(Top.table,
               [stack EXCEPT ![Len(stack)].todo = @ \ {childTable}])
    /\ UNCHANGED <<tables, rootsTodo, ret, history>>

\* visit, lines 38-40: the loop of the innermost frame produces a child.
VisitChild ==
    /\ pc = "run"
    /\ stack # <<>>
    /\ \E childTable \in Top.todo :
         visit(childTable,
               [stack EXCEPT ![Len(stack)].todo = @ \ {childTable}])
    /\ UNCHANGED <<tables, rootsTodo, ret, history>>

\* Variant: the result of append is dropped.
FinishNoCollect ==
    /\ pc = "run"
    /\ stack # <<>>
    /\ Top.todo = {}
    /\ nodeColor' = MarkDone(nodeColor, Top.table)
    /\ stack' = Pop(stack)
    /\ UNCHANGED <<tables, collector, rootsTodo, err, curTable, visits, pc,
                   ret, history>>

\* Variant: the references of a finished table are deleted from the graph.
FinishDropsRefs ==
    /\ pc = "run"
    /\ stack # <<>>
    /\ Top.todo = {}
    /\ nodeColor' = MarkDone(nodeColor, Top.table)
    /\ collector' = Collect(collector, Top.table)
    /\ stack' = Pop(stack)
    /\ tables' = [tables EXCEPT ![Top.table] = {}]
    /\ UNCHANGED <<rootsTodo, err, curTable, visits, pc, ret, history>>

\* visit, lines 46-48 and 57: all children visited; mark BLACK, collect.
Finish ==
    /\ pc = "run"
    /\ stack # <<>>
    /\ Top.todo = {}
    /\ nodeColor' = MarkDone(nodeColor, Top.table)
    /\ collector' = Collect(collector, Top.table)
    /\ stack' = Pop(stack)
    /\ UNCHANGED <<tables, rootsTodo, err, curTable, visits, pc, ret, history>>

\* Variant: the error of a child is not tested and the loop goes on.
UnwindIgnoresError ==
    /\ pc = "unwind"
    /\ stack # <<>>
    /\ pc' = "run"
    /\ UNCHANGED <<tables, nodeColor, collector, stack, rootsTodo, err,
                   curTable, visits, ret, history>>

\* visit, lines 41-43: a child returned an error; return nil and the error.
Unwind ==
    /\ pc = "unwind"
    /\ stack # <<>>
    /\ stack' = Pop(stack)
    /\ UNCHANGED <<tables, nodeColor, collector, rootsTodo, err, curTable,
                   visits, pc, ret, history>>

\* Variant: on an error the sort is started over instead of returning.
ReturnErrRetry ==
    /\ pc = "unwind"
    /\ stack = <<>>
    /\ nodeColor' = InitColors(tables)
    /\ collector' = MakeCollector
    /\ rootsTodo' = DOMAIN tables
    /\ err' = NoErr
    /\ curTable' = ""
    /\ visits' = 0
    /\ pc' = "run"
    /\ UNCHANGED <<tables, stack, ret, history>>

\* topoSortTables, lines 73-75: return nil and the error.
ReturnErr ==
    /\ pc = "unwind"
    /\ stack = <<>>
    /\ ret' = [seq |-> NilSlice, err |-> err]
    /\ history' = Append(history, err.kind)
    /\ pc' = "done"
    /\ UNCHANGED <<tables, nodeColor, collector, stack, rootsTodo, err,
                   curTable, visits>>

\* Variant: the loop over the tables stops after the first table.
ReturnOkEarly ==
    /\ pc = "run"
    /\ stack = <<>>
    /\ rootsTodo # DOMAIN tables \/ rootsTodo = {}
    /\ ret' = [seq |-> collector, err |-> NoErr]
    /\ history' = Append(history, "ok")
    /\ pc' = "done"
    /\ UNCHANGED <<tables, nodeColor, collector, stack, rootsTodo, err,
                   curTable, visits>>

\* Variant: a graph without tables is rejected with an error.
ReturnOkRejectEmpty ==
    /\ pc = "run"
    /\ stack = <<>>
    /\ rootsTodo = {}
    /\ ret' = IF DOMAIN tables = {}
                THEN [seq |-> NilSlice, err |-> [kind |-> "empty", table |-> ""]]
                ELSE [seq |-> collector, err |-> NoErr]
    /\ history' = Append(history, IF DOMAIN tables = {} THEN "empty" ELSE "ok")
    /\ pc' = "done"
    /\ UNCHANGED <<tables, nodeColor, collector, stack, rootsTodo, err,
                   curTable, visits>>

\* topoSortTables, line 78: every table visited; return the collector.
ReturnOk ==
    /\ pc = "run"
    /\ stack = <<>>
    /\ rootsTodo = {}
    /\ ret' = [seq |-> collector, err |-> NoErr]
    /\ history' = Append(history, "ok")
    /\ pc' = "done"
    /\ UNCHANGED <<tables, nodeColor, collector, stack, rootsTodo, err,
                   curTable, visits>>

Next ==
    \/ Call
    \/ VisitRoot
    \/ VisitChild
    \/ Finish
    \/ Unwind
    \/ ReturnErr
    \/ ReturnOk

Spec == Init /\ [][Next]_vars

\* The steps of a running call.  The code is sequential and does nothing
\* but compute (no I/O, no waiting), so a call that has started keeps
\* taking steps; whether the caller calls again is left open.
RunSteps ==
    \/ VisitRoot
    \/ VisitChild
    \/ Finish
    \/ Unwind
    \/ ReturnErr
    \/ ReturnOk

FairSpec == Spec /\ WF_vars(RunSteps)

\* ------------------------------------------------- properties of a graph
\* Every referenced name is a table of the graph.
WellFormed(g) == \A t \in DOMAIN g : g[t] \subseteq DOMAIN g

Succ(g, S) == UNION {g[t] : t \in S \cap DOMAIN g}

RECURSIVE Closure(_, _, _)
Closure(g, S, n) == IF n = 0 THEN S ELSE Closure(g, S \cup Succ(g, S), n - 1)

\* The names reached from t along one or more reference edges.
ReachFrom(g, t) == Closure(g, Succ(g, {t}), Cardinality(Names))

OnCycle(g, t) == t \in ReachFrom(g, t)
HasCycle(g) == \E t \in DOMAIN g : OnCycle(g, t)

Referrers(g, t) == {s \in DOMAIN g : t \in g[s]}

Positions(seq, x) == {i \in 1..Len(seq) : seq[i] = x}
Elems(seq) == {seq[i] : i \in 1..Len(seq)}

OnStack == {stack[i].table : i \in 1..Len(stack)}

Returned == pc = "done"
Ended == pc \in {"done", "panic"}
ReturnedOk == Returned /\ ret.err = NoErr /\ ~ret.seq.isNil

\* The graph of the scenario of the specification: customers (a) and
\* products (b) reference nothing, orders (c) references customers,
\* line_items (d) references orders and products.
ScenarioGraph == [t \in Names |->
    CASE t = "c" -> {"a"} [] t = "d" -> {"c", "b"} [] OTHER -> {}]

\* a references b and c, b and c both reference d.
DiamondGraph == [t \in Names |->
    CASE t = "a" -> {"b", "c"} [] t = "b" -> {"d"} [] t = "c" -> {"d"}
      [] OTHER -> {}]

\* ---------------------------------------------------------------- claims
\* C1: on an acyclic graph whose references are all tables, topoSortTables
\* returns no error and a sequence in which, for every edge A->B, B stands
\* at a strictly smaller index than A, whatever the iteration order.
C1_DependencyFirst ==
    (Returned /\ WellFormed(tables) /\ ~HasCycle(tables)) =>
        /\ ReturnedOk
        /\ \A e \in EdgesOf(tables) :
             /\ Positions(ret.seq.elems, e[1]) # {}
             /\ Positions(ret.seq.elems, e[2]) # {}
             /\ \A i \in Positions(ret.seq.elems, e[1]) :
                  \A j \in Positions(ret.seq.elems, e[2]) : j < i

C1_Witness ==
    /\ ReturnedOk
    /\ tables = ScenarioGraph
    /\ ret.seq.elems = <<"b", "a", "c", "d">>

\* C2: on an acyclic graph whose references are all tables, the returned
\* sequence holds every table exactly once and no other name, and no error
\* is returned.
C2_EveryTableOnce ==
    (Returned /\ WellFormed(tables) /\ ~HasCycle(tables)) =>
        /\ ReturnedOk
        /\ Elems(ret.seq.elems) = DOMAIN tables
        /\ \A t \in DOMAIN tables :
             Cardinality(Positions(ret.seq.elems, t)) = 1

C2_Witness ==
    /\ ReturnedOk
    /\ tables = ScenarioGraph
    /\ Len(ret.seq.elems) = 4
    /\ Elems(ret.seq.elems) = Names

\* C3 (as stated): on every graph with a directed cycle the run ends with
\* topoSortTables returning a cycle error and a nil sequence.
C3_CycleYieldsError ==
    (Ended /\ HasCycle(tables)) =>
        /\ Returned
        /\ ret.err.kind = "cycle"
        /\ ret.seq = NilSlice

\* C3 on the graphs whose references are all tables: with a directed cycle
\* the run ends with topoSortTables returning a cycle error and a nil
\* sequence.
C3_CycleYieldsErrorWellFormed ==
    (Ended /\ HasCycle(tables) /\ WellFormed(tables)) =>
        /\ Returned
        /\ ret.err.kind = "cycle"
        /\ ret.seq = NilSlice

\* b was collected before the self-reference of a was found; the list with
\* b is not returned.
C3_Witness ==
    /\ Returned
    /\ tables = [t \in {"a", "b"} |-> IF t = "a" THEN {"a"} ELSE {}]
    /\ ColorOf(nodeColor, "b") = BLACK
    /\ ret = [seq |-> NilSlice, err |-> CycleError("a")]

\* C4: the table named in a returned cycle error is the table visited while
\* GREY, and it reaches itself along reference edges; for {a: [a]} it is a,
\* for {a: [b], b: [a]} it is a or b.
C4_ErrorNamesCycleTable ==
    (Returned /\ ret.err.kind = "cycle") =>
        /\ ret.err.table = curTable
        /\ ColorOf(nodeColor, curTable) = GREY
        /\ ret.err.table \in DOMAIN tables
        /\ OnCycle(tables, ret.err.table)
        /\ (tables = [t \in {"a"} |-> {"a"}] => ret.err.table = "a")
        /\ (tables = [t \in {"a", "b"} |-> IF t = "a" THEN {"b"} ELSE {"a"}]
              => ret.err.table \in {"a", "b"})

\* The traversal starts at a, which is on no cycle, and finds the loop b, c.
C4_Witness ==
    /\ Returned
    /\ tables = [t \in {"a", "b", "c"} |->
                   CASE t = "a" -> {"b"} [] t = "b" -> {"c"} [] OTHER -> {"b"}]
    /\ ret.err = CycleError("b")
    /\ rootsTodo = {"b", "c"}

\* C5 (as stated): when a table references a name that is no table, the run
\* ends with topoSortTables returning a MalformedGraph error and no sequence.
C5_MalformedGraphError ==
    (Ended /\ ~WellFormed(tables)) =>
        /\ Returned
        /\ ret.err.kind = "malformed"
        /\ ret.seq = NilSlice

\* A step in which visit is called on a table that is BLACK.
VisitOfBlack == visits' = visits + 1 /\ ColorOf(nodeColor, curTable') = BLACK

\* C6: a visit of a BLACK table raises no error and changes no color and
\* not the collector; so on an acyclic graph a table referenced by two or
\* more tables is in the returned sequence exactly once, without error.
C6_DoneVisitIsNoOp ==
    /\ [][VisitOfBlack =>
            /\ nodeColor' = nodeColor
            /\ collector' = collector
            /\ err' = err
            /\ pc' = "run"]_vars
    /\ [](\A t \in DOMAIN tables :
            (/\ Returned /\ WellFormed(tables) /\ ~HasCycle(tables)
             /\ Cardinality(Referrers(tables, t)) >= 2) =>
                /\ ReturnedOk
                /\ Cardinality(Positions(ret.seq.elems, t)) = 1)

\* d was collected below b and visited again, BLACK, from c.
C6_Witness ==
    /\ ReturnedOk
    /\ tables = DiamondGraph
    /\ ret.seq.elems = <<"d", "b", "c", "a">>
    /\ curTable = "d"
    /\ visits = 8

\* The state topoSortTables starts its loop in.
Fresh ==
    /\ nodeColor = [t \in DOMAIN tables |-> WHITE]
    /\ collector = MakeCollector
    /\ stack = <<>>
    /\ rootsTodo = DOMAIN tables
    /\ err = NoErr

\* C7: every call of topoSortTables starts with every table WHITE and an
\* empty collector, whatever the earlier calls did; the calls made on one
\* graph that return end the same way.
C7_FreshStatePerCall ==
    /\ [][(pc \in {"idle", "done"} /\ pc' = "run") => Fresh']_vars
    /\ [](\A i, j \in DOMAIN history : history[i] = history[j])

\* A second call starts after a call that returned a cycle error and left
\* tables GREY.
C7_Witness ==
    /\ history = <<"cycle">>
    /\ pc = "run"
    /\ Fresh
    /\ visits = 0
    /\ DOMAIN tables = Names

\* C8: for the graph without tables topoSortTables returns an empty
\* sequence and no error.
C8_EmptyGraph ==
    (Returned /\ DOMAIN tables = {}) =>
        /\ ret.err = NoErr
        /\ ret.seq.elems = <<>>

C8_Witness ==
    /\ Returned
    /\ DOMAIN tables = {}
    /\ ret = [seq |-> MakeCollector, err |-> NoErr]
    /\ visits = 0

\* A table is GREY exactly when a frame of visit for it is active.
GreyIffOnStack == \A t \in Names : ColorOf(nodeColor, t) = GREY <=> t \in OnStack

\* C9 (as stated): in every reachable state a table is GREY exactly when it
\* is on the stack of visit.
C9_GreyIffOnStackAlways == GreyIffOnStack

\* C9 (amended): as long as no cycle error has been raised in the run, a
\* table is GREY exactly when it is on the stack of visit.
C9_GreyIffOnStackUntilError == err = NoErr => GreyIffOnStack

\* Three frames are active, one table is BLACK, no error has been raised.
C9_Witness ==
    /\ pc = "run"
    /\ err = NoErr
    /\ Len(stack) = 3
    /\ \E t \in DOMAIN tables : ColorOf(nodeColor, t) = BLACK
    /\ \A t \in OnStack : ColorOf(nodeColor, t) = GREY

\* C10: every BLACK table has only BLACK references, in every reachable
\* state, and a table turns BLACK only in a state in which all its
\* references are BLACK.
C10_DoneAfterReferences ==
    /\ [](\A t \in Names : ColorOf(nodeColor, t) = BLACK =>
            /\ t \in DOMAIN tables
            /\ \A r \in tables[t] : ColorOf(nodeColor, r) = BLACK)
    /\ [][\A t \in DOMAIN tables :
            (ColorOf(nodeColor, t) # BLACK /\ ColorOf(nodeColor', t) = BLACK) =>
                \A r \in tables[t] : ColorOf(nodeColor, r) = BLACK]_vars

\* A table with two references has just been marked BLACK, its referrer is
\* still GREY.
C10_Witness ==
    /\ pc = "run"
    /\ tables = DiamondGraph
    /\ ColorOf(nodeColor, "b") = BLACK
    /\ ColorOf(nodeColor, "d") = BLACK
    /\ ColorOf(nodeColor, "a") = GREY
    /\ ColorOf(nodeColor, "c") = WHITE

\* A step of a run of topoSortTables, as opposed to the call that starts one.
InRun == pc \notin {"idle", "done"}

Advances(c, d) == d = c \/ (c = WHITE /\ d = GREY) \/ (c = GREY /\ d = BLACK)

\* C11: within a run the color of a table only goes WHITE -> GREY -> BLACK,
\* one stage at a time and never back (so it turns GREY at most once), and
\* the only step that raises an error is a call of visit on a GREY table.
C11_ColorsOnlyAdvance ==
    [][InRun =>
         /\ \A t \in Names :
              Advances(ColorOf(nodeColor, t), ColorOf(nodeColor', t))
         /\ err' # err =>
              /\ err = NoErr
              /\ visits' = visits + 1
              /\ ColorOf(nodeColor, curTable') = GREY
              /\ err' = CycleError(curTable')]_vars

\* A run has ended with the loop error while tables of all three colors
\* exist.
C11_Witness ==
    /\ Returned
    /\ ret.err.kind = "cycle"
    /\ \E t \in DOMAIN tables : ColorOf(nodeColor, t) = BLACK
    /\ \E t \in DOMAIN tables : ColorOf(nodeColor, t) = GREY
    /\ \E t \in DOMAIN tables : ColorOf(nodeColor, t) = WHITE

\* stack' is what is left of stack when frames have returned.
FramesOnlyReturn ==
    /\ Len(stack') <= Len(stack)
    /\ stack' = SubSeq(stack, 1, Len(stack'))

\* C12: once visit has raised the loop error, the run changes no color,
\* appends nothing, calls visit no more (no sibling, no root), keeps the
\* error, and topoSortTables returns that error.
C12_NoWorkAfterError ==
    /\ [][(InRun /\ err # NoErr) =>
            /\ nodeColor' = nodeColor
            /\ collector' = collector
            /\ visits' = visits
            /\ curTable' = curTable
            /\ rootsTodo' = rootsTodo
            /\ FramesOnlyReturn
            /\ err' = err
            /\ pc' \in {"unwind", "done"}]_vars
    /\ []((Returned /\ err # NoErr) =>
            /\ ret.err = err
            /\ ret.seq = NilSlice
            /\ collector = NilSlice)

\* The error was raised three frames deep; a sibling reference, a root and
\* a WHITE table were left unvisited when topoSortTables returned it.
C12_Witness ==
    /\ Returned
    /\ ret.err = CycleError("a")
    /\ tables = [t \in {"a", "b", "c"} |->
                   CASE t = "a" -> {"b"} [] t = "b" -> {"a", "c"} [] OTHER -> {}]
    /\ rootsTodo = {"b", "c"}
    /\ ColorOf(nodeColor, "c") = WHITE
    /\ visits = 3

\* C13: on a graph whose references are all tables every started run
\* terminates: topoSortTables returns the full sequence or the loop error.
C13_Terminates ==
    [](( WellFormed(tables) /\ pc \in {"run", "unwind"}) =>
         <>(/\ Returned
            /\ \/ ReturnedOk /\ Len(ret.seq.elems) = Cardinality(DOMAIN tables)
               \/ ret.err.kind = "cycle" /\ ret.seq = NilSlice))

\* A second run on a graph with a loop through three tables has returned.
C13_Witness ==
    /\ Returned
    /\ WellFormed(tables)
    /\ history = <<"cycle", "cycle">>
    /\ tables = [t \in {"a", "b", "c"} |->
                   CASE t = "a" -> {"b"} [] t = "b" -> {"c"} [] OTHER -> {"a"}]
    /\ visits = 4

\* Number of tables and of reference edges of a graph.
NumTables(g) == Cardinality(DOMAIN g)
NumEdges(g) == Cardinality(EdgesOf(g))

RECURSIVE SumRefs(_, _)
SumRefs(g, S) ==
    IF S = {} THEN 0
    ELSE LET t == CHOOSE x \in S : TRUE
         IN  Cardinality(g[t]) + SumRefs(g, S \ {t})

RECURSIVE FollowedByFrames(_)
FollowedByFrames(n) ==
    IF n = 0 THEN 0
    ELSE Cardinality(tables[stack[n].table] \ stack[n].todo)
           + FollowedByFrames(n - 1)

\* The reference edges the run has followed: all edges of the BLACK tables
\* and those the loops of the active frames have produced.
EdgesFollowed ==
    SumRefs(tables, {t \in DOMAIN tables : ColorOf(nodeColor, t) = BLACK})
      + FollowedByFrames(Len(stack))

RootsProduced == Cardinality((DOMAIN tables) \ rootsTodo)

\* C14 (as stated): a run on an acyclic graph calls visit exactly V + E
\* times.
C14_VisitCount ==
    (Ended /\ ~HasCycle(tables)) =>
        visits = NumTables(tables) + NumEdges(tables)

AcyclicTables == WellFormed(tables) /\ ~HasCycle(tables)

\* C14 on the graphs whose references are all tables: in a run on an
\* acyclic graph a frame ranges over the references of a table only when visit
\* found the table WHITE, each call of visit from a frame takes one
\* not yet produced reference of that frame, visit has been called once per
\* produced root and once per followed edge, and V + E times when
\* topoSortTables returns.
C14_VisitCountWellFormed ==
    /\ []((AcyclicTables /\ pc \in {"run", "done"}) =>
            /\ visits = RootsProduced + EdgesFollowed
            /\ Returned => visits = NumTables(tables) + NumEdges(tables))
    /\ [][(AcyclicTables /\ InRun /\ Len(stack') > Len(stack)) =>
            /\ ColorOf(nodeColor, curTable') = WHITE
            /\ stack'[Len(stack')] =
                 [table |-> curTable', todo |-> tables[curTable']]]_vars
    /\ [][(AcyclicTables /\ InRun /\ visits' = visits + 1 /\ stack # <<>>) =>
            /\ curTable' \in Top.todo
            /\ stack'[Len(stack)].todo = Top.todo \ {curTable'}]_vars

\* The diamond has 4 tables and 4 edges; the roots were produced d first,
\* so three of the eight calls of visit found their table BLACK.
C14_Witness ==
    /\ ReturnedOk
    /\ tables = DiamondGraph
    /\ visits = 8
    /\ ret.seq.elems = <<"d", "c", "b", "a">>

Max(S) == CHOOSE x \in S : \A y \in S : y <= x

\* Number of tables on the longest chain of references that starts at t and
\* has at most n tables.
RECURSIVE ChainFrom(_, _, _)
ChainFrom(g, t, n) ==
    IF n = 0 \/ t \notin DOMAIN g THEN 0
    ELSE 1 + Max({0} \cup {ChainFrom(g, r, n - 1) : r \in g[t]})

\* Number of tables on the longest dependency chain of an acyclic graph.
LongestChain(g) ==
    Max({0} \cup {ChainFrom(g, t, NumTables(g)) : t \in DOMAIN g})

StackDistinct == Cardinality(OnStack) = Len(stack)

\* C15 (as stated): in every state of a run on an acyclic graph the stack of
\* visit is at most as deep as the longest dependency chain has tables, so
\* at most as deep as there are tables, and its tables are pairwise distinct.
C15_StackDepth ==
    ~HasCycle(tables) =>
        /\ Len(stack) <= LongestChain(tables)
        /\ Len(stack) <= NumTables(tables)
        /\ StackDistinct

\* C15 on the graphs whose references are all tables: the same bounds hold
\* on an acyclic graph; the frames form a chain of references, and a call of visit,
\* which adds a frame to those of its callers, is for a table that none of
\* them is for and stays within the bound.
C15_StackDepthWellFormed ==
    /\ [](AcyclicTables =>
            /\ Len(stack) <= LongestChain(tables)
            /\ LongestChain(tables) <= NumTables(tables)
            /\ StackDistinct
            /\ \A i \in 1..(Len(stack) - 1) :
                 stack[i + 1].table \in tables[stack[i].table])
    /\ [][(AcyclicTables /\ visits' = visits + 1) =>
            /\ curTable' \notin OnStack
            /\ Len(stack) + 1 <= LongestChain(tables)]_vars

\* a -> b -> c -> d
ChainGraph == [t \in Names |->
    CASE t = "a" -> {"b"} [] t = "b" -> {"c"} [] t = "c" -> {"d"}
      [] OTHER -> {}]

\* On the linear chain the stack holds all four tables.
C15_Witness ==
    /\ pc = "run"
    /\ tables = ChainGraph
    /\ Len(stack) = 4
    /\ LongestChain(tables) = 4

\* C16: no step changes the graph: the tables and the references of each
\* table are at the return of topoSortTables, with a sequence or with an
\* error, what they were at the call.
C16_GraphUnchanged ==
    [][/\ DOMAIN tables' = DOMAIN tables
       /\ \A t \in DOMAIN tables : tables'[t] = tables[t]]_vars

\* Two runs on the diamond have returned, and the graph is the diamond.
C16_Witness ==
    /\ Returned
    /\ history = <<"ok", "ok">>
    /\ tables = DiamondGraph
    /\ Elems(ret.seq.elems) = Names

NoDuplicates(seq) == \A i, j \in 1..Len(seq) : seq[i] = seq[j] => i = j

\* Every reference of a listed table is listed before it.
DependencyFirst(seq) ==
    \A i \in 1..Len(seq) :
        \A r \in tables[seq[i]] : \E j \in 1..(i - 1) : seq[j] = r

\* C17: as long as no cycle error has been raised, the collector has no
\* duplicates, its names are the BLACK tables, and every reference of a
\* listed table is listed at a smaller index; within a run the collector
\* changes only by an append at its end.
C17_CollectorInvariant ==
    /\ [](err = NoErr =>
            /\ NoDuplicates(collector.elems)
            /\ Elems(collector.elems) =
                 {t \in Names : ColorOf(nodeColor, t) = BLACK}
            /\ Elems(collector.elems) \subseteq DOMAIN tables
            /\ DependencyFirst(collector.elems))
    /\ [][(InRun /\ err' = NoErr) =>
            \/ collector' = collector
            \/ \E t \in Names :
                 collector'.elems = Append(collector.elems, t)]_vars

\* In the middle of a run on the scenario graph: customers and orders are
\* listed, line_items is GREY, products is WHITE.
C17_Witness ==
    /\ pc = "run"
    /\ err = NoErr
    /\ tables = ScenarioGraph
    /\ collector.elems = <<"a", "c">>
    /\ ColorOf(nodeColor, "d") = GREY
    /\ ColorOf(nodeColor, "b") = WHITE

====
